---- MODULE Spec2Model ----
(***************************************************************************)
(* Model of the analysis core of oxc: the dependency walker of the         *)
(* no-excessive-deps / no-export-all rules (walk_deps, run_once) and the   *)
(* flattened AST node store (AstNodes).                                    *)
(***************************************************************************)
EXTENDS Integers, Sequences, FiniteSets, TLC

(***************************************************************************)
(* Bounds and program constants                                            *)
(***************************************************************************)

\* at most this many resolved module requests (loaded_modules entries) in
\* the whole module graph handed to the walker
MaxEdges == 3

\* at most this many add_node calls on one store
MaxNodes == 4

\* at most this many keys in an option object of a rule configuration
MaxKeys == 2

\* at most this many entries in the `paths` array of a configuration
MaxPaths == 2

\* at most this many import entries in the linted file
MaxEntries == 2

\* at most this many parameters of a method definition
MaxParams == 2

\* at most this many statements in the body of a method definition
MaxStmts == 3

\* at most this many method definitions processed by one transformer
MaxMethods == 2

\* a u32 is held as two 16-bit limbs <<high, low>>: its value is
\* high * 65536 + low
U32(n) == <<n \div 65536, n % 65536>>

\* u32::MAX, the default of max_deps
U32_MAX == <<65535, 65535>>

\* Option<T>: None is the empty sequence, Some(x) the sequence of x alone
None == <<>>

Some(x) == <<x>>

(***************************************************************************)
(* The module graph: paths, specifiers, resolution                         *)
(***************************************************************************)

\* resolved_absolute_path values, as sequences of path components
EntryPath == <<"proj", "entry.js">>
APath == <<"proj", "a.js">>
BPath == <<"proj", "b.js">>
CPath == <<"proj", "c.js">>
PkgPath == <<"proj", "node_modules", "pkg.js">>

Paths == {EntryPath, APath, BPath, CPath, PkgPath}

\* module specifiers (the keys of loaded_modules)
Specifiers == {"./entry", "./a", "./a.js", "./b", "./c", "pkg"}

\* the record a specifier resolves to (the value stored beside the key)
Resolve(s) ==
    CASE s = "./entry" -> EntryPath
      [] s = "./a" -> APath
      [] s = "./a.js" -> APath
      [] s = "./b" -> BPath
      [] s = "./c" -> CPath
      [] s = "pkg" -> PkgPath

\* the module requests that may occur in each file of the project
Requests ==
    {<<EntryPath, "./a">>, <<EntryPath, "./a.js">>, <<EntryPath, "./b">>,
     <<EntryPath, "pkg">>, <<EntryPath, "./entry">>,
     <<APath, "./b">>, <<APath, "./entry">>,
     <<BPath, "./c">>, <<BPath, "./entry">>,
     <<PkgPath, "./c">>}

\* the files a lint run may start from
FilePaths == {EntryPath, PkgPath}

\* the configured limits tried
MaxDepsValues == {U32(2), U32(3), U32_MAX}

\* the is_type flags of the import entries that make one request: none (the
\* request of a re-export), type-only, value, or both. walk_deps reads
\* import_entries only when ignore_types is set; without it, and in the
\* `plain` graphs, a request is type-only or by value and no more
EntryKinds(plain, ignoring) ==
    IF ignoring /\ ~plain THEN SUBSET BOOLEAN ELSE {{TRUE}, {FALSE}}

\* the sets of resolved requests of a module graph
EdgeSets == {E \in SUBSET Requests : Cardinality(E) <= MaxEdges}

\* loaded_modules of every module for the resolved requests E
LoadedModulesOf(E) ==
    [m \in Paths |-> [s \in {r[2] : r \in {q \in E : q[1] = m}} |-> Resolve(s)]]

\* import_entries of every module: for each resolved request, one entry per
\* is_type flag in kinds[request] (none for a request made by a re-export)
ImportEntriesOf(E, kinds) ==
    [m \in Paths |->
        {[module_request |-> r[2], is_type |-> t] :
            <<r, t>> \in {x \in E \X BOOLEAN : x[1][1] = m /\ x[2] \in kinds[x[1]]}}]

(***************************************************************************)
(* State                                                                   *)
(***************************************************************************)

VARIABLES
    \* the rule (NoExcessiveDeps) and the lint context
    max_deps, ignore_types, should_print_deps, file_path,
    \* the module graph (ModuleRecord.loaded_modules / import_entries)
    loaded_modules, import_entries,
    \* run_once / walk_deps
    pc, traversed, stack, frames, diagnostics,
    \* history of the traversal: how often walk_deps was called on a module,
    \* and how often its loaded_modules loop was entered
    called, explored,
    \* the node store (AstNodes); whether a call has panicked; history: the
    \* ids add_node has returned so far and whether set_root was called
    root, nodes, parent_ids, panicked, returned, root_set,
    \* the configuration value handed to from_configuration, the rules whose
    \* from_configuration has returned, the NoRestrictedImports and NoExportAll
    \* rules built, and the import entries of the linted file in source order
    config, configured, no_restricted_imports, no_export_all, entries,
    \* rule dispatch over one file: the kinds of the file's nodes in pre-order,
    \* the number of nodes whose visit is complete, the calls made so far
    tree, cursor, calls,
    \* the TypeScriptAnnotations transformer: the pending assignments, the
    \* super-call flag, the method definition it is at, which of its hooks
    \* comes next, and how many method definitions it has processed
    assignments, has_super_call, def, hook, processed

ruleVars == <<max_deps, ignore_types, should_print_deps, file_path>>
graphVars == <<loaded_modules, import_entries>>
walkVars == <<pc, traversed, stack, frames, diagnostics, called, explored>>

storeVars == <<root, nodes, parent_ids, panicked, returned, root_set>>

lintVars == <<config, configured, no_restricted_imports, no_export_all, entries>>

\* the state that the walker and the node store leave alone
dispatchVars == <<tree, cursor, calls>>

annotationVars == <<assignments, has_super_call, def, hook, processed>>

extraVars == <<lintVars, dispatchVars, annotationVars>>

vars == <<ruleVars, graphVars, walkVars, storeVars, extraVars>>

(***************************************************************************)
(* Helpers of the rules                                                    *)
(***************************************************************************)

\* p.components().any(|c| c == Normal("node_modules"))
is_path_in_node_modules(p) == \E i \in 1..Len(p) : p[i] = "node_modules"

\* (variant: a key that no import entry requests is not type-only)
was_imported_as_type_Requested(m, s) ==
    /\ \E x \in import_entries[m] : x.module_request = s
    /\ \A e \in {x \in import_entries[m] : x.module_request = s} : e.is_type

\* (variant: `any` in place of `all`)
was_imported_as_type_Any(m, s) ==
    \E e \in {x \in import_entries[m] : x.module_request = s} : e.is_type

\* import_entries.iter().filter(request == key).all(|entry| entry.is_type)
was_imported_as_type(m, s) ==
    \A e \in {x \in import_entries[m] : x.module_request = s} : e.is_type

\* usize / u32 to_string: the decimal digits, most significant first
Digit(d) == <<"0", "1", "2", "3", "4", "5", "6", "7", "8", "9">>[d + 1]

RECURSIVE to_string(_)
to_string(n) ==
    IF n < 10 THEN <<Digit(n)>> ELSE Append(to_string(n \div 10), Digit(n % 10))

\* u32::to_string, by long division of the two limbs by ten
RECURSIVE u32_to_string(_)
u32_to_string(u) ==
    IF u[1] = 0
    THEN to_string(u[2])
    ELSE LET rest == (u[1] % 10) * 65536 + u[2]
         IN  Append(u32_to_string(<<u[1] \div 10, rest \div 10>>), Digit(rest % 10))

\* (variant: `>=` in place of `>`)
usize_gt_u32_OrEqual(n, u) ==
    \/ n \div 65536 > u[1]
    \/ n \div 65536 = u[1] /\ n % 65536 >= u[2]

\* n > usize::try_from(u).unwrap() for a usize n and a u32 u
usize_gt_u32(n, u) ==
    \/ n \div 65536 > u[1]
    \/ n \div 65536 = u[1] /\ n % 65536 > u[2]

\* walk_deps returns from every call whose loop over loaded_modules is
\* exhausted; each caller but run_once then pops the key it pushed
RECURSIVE ReturnExhausted(_, _)
ReturnExhausted(fr, st) ==
    IF fr = <<>> \/ fr[Len(fr)].todo # {}
    THEN [frames |-> fr, stack |-> st]
    ELSE ReturnExhausted(SubSeq(fr, 1, Len(fr) - 1),
                         IF Len(fr) > 1 THEN SubSeq(st, 1, Len(st) - 1) ELSE st)

\* (variant: no early return for a path in node_modules)
CallWalkDeps_NoVendorCheck(fr, st, m) ==
    ReturnExhausted(Append(fr, [module |-> m, todo |-> DOMAIN loaded_modules[m]]), st)

\* walk_deps called on module m with the callers' frames fr and state.stack
\* st: the call returns at once for a path in node_modules, otherwise it
\* starts the loop over loaded_modules
CallWalkDeps(fr, st, m) ==
    IF is_path_in_node_modules(m)
    THEN ReturnExhausted(fr, IF fr = <<>> THEN st ELSE SubSeq(st, 1, Len(st) - 1))
    ELSE ReturnExhausted(Append(fr, [module |-> m, todo |-> DOMAIN loaded_modules[m]]), st)

\* the traversal history after a call of walk_deps on module m
CalledAfter(m) == [called EXCEPT ![m] = @ + 1]

ExploredAfter(m) ==
    IF is_path_in_node_modules(m) THEN explored ELSE [explored EXCEPT ![m] = @ + 1]

\* (variant: the filter keeps the paths in node_modules)
InternalDeps_KeepVendored(file, paths) == {p \in paths : p # file}

\* the filter of run_once: not this file, not in node_modules
InternalDeps(file, paths) ==
    {p \in paths : p # file /\ ~is_path_in_node_modules(p)}

\* (variant: the result of insert is ignored)
InsertIsNew_ReturnIgnored(p) == TRUE

\* state.traversed.insert(path): true when the path was not yet in the set

InsertIsNew(p) == p \notin traversed

\* the frame of the running walk_deps call and the path its key leads to
Top == frames[Len(frames)]

\* (variant: `break` in place of `continue`)
TopRest_Break(s) == [frames EXCEPT ![Len(frames)].todo = {}]

\* the running call's frame once the loop has taken key s
TopRest(s) == [frames EXCEPT ![Len(frames)].todo = @ \ {s}]

Child(s) == loaded_modules[Top.module][s]

(***************************************************************************)
(* NoExcessiveDeps::run_once and walk_deps                                 *)
(***************************************************************************)

\* (variant: the start's own path is marked as traversed before the walk)
RunOnceBegin_MarksStart ==
    /\ pc = "idle"
    /\ pc' = "walk"
    /\ traversed' = {file_path}
    /\ frames' = CallWalkDeps(<<>>, <<>>, file_path).frames
    /\ stack' = CallWalkDeps(<<>>, <<>>, file_path).stack
    /\ called' = CalledAfter(file_path)
    /\ explored' = ExploredAfter(file_path)
    /\ UNCHANGED <<diagnostics, ruleVars, graphVars, storeVars>>

\* run_once up to the first loop iteration: State::default(), walk_deps(start)
RunOnceBegin ==
    /\ pc = "idle"
    /\ pc' = "walk"
    /\ traversed' = {}
    /\ frames' = CallWalkDeps(<<>>, <<>>, file_path).frames
    /\ stack' = CallWalkDeps(<<>>, <<>>, file_path).stack
    /\ called' = CalledAfter(file_path)
    /\ explored' = ExploredAfter(file_path)
    /\ UNCHANGED <<diagnostics, ruleVars, graphVars, storeVars>>

\* a loop iteration that ends at the first `continue`: ignore_types is set and
\* every import entry requesting the key is type-only
SkipTypeOnly(s) ==
    /\ ignore_types /\ was_imported_as_type(Top.module, s)
    /\ frames' = ReturnExhausted(TopRest(s), stack).frames
    /\ stack' = ReturnExhausted(TopRest(s), stack).stack
    /\ UNCHANGED <<pc, traversed, diagnostics, called, explored>>

\* a loop iteration that ends at the second `continue`: insert returned false
SkipTraversed(s) ==
    /\ ~(ignore_types /\ was_imported_as_type(Top.module, s))
    /\ ~InsertIsNew(Child(s))
    /\ frames' = ReturnExhausted(TopRest(s), stack).frames
    /\ stack' = ReturnExhausted(TopRest(s), stack).stack
    /\ UNCHANGED <<pc, traversed, diagnostics, called, explored>>

\* (variant: the path is never inserted into state.traversed)
Recurse_NoInsert(s) ==
    /\ ~(ignore_types /\ was_imported_as_type(Top.module, s))
    /\ InsertIsNew(Child(s))
    /\ traversed' = traversed
    /\ frames' = CallWalkDeps(TopRest(s), Append(stack, <<s, Child(s)>>), Child(s)).frames
    /\ stack' = CallWalkDeps(TopRest(s), Append(stack, <<s, Child(s)>>), Child(s)).stack
    /\ called' = CalledAfter(Child(s))
    /\ explored' = ExploredAfter(Child(s))
    /\ UNCHANGED <<pc, diagnostics>>

\* a loop iteration that inserts the path, pushes the key and recurses
Recurse(s) ==
    /\ ~(ignore_types /\ was_imported_as_type(Top.module, s))
    /\ InsertIsNew(Child(s))
    /\ traversed' = traversed \cup {Child(s)}
    /\ frames' = CallWalkDeps(TopRest(s), Append(stack, <<s, Child(s)>>), Child(s)).frames
    /\ stack' = CallWalkDeps(TopRest(s), Append(stack, <<s, Child(s)>>), Child(s)).stack
    /\ called' = CalledAfter(Child(s))
    /\ explored' = ExploredAfter(Child(s))
    /\ UNCHANGED <<pc, diagnostics>>

\* one iteration of `for module_record_ref in &module_record.loaded_modules`,
\* in whatever order the map yields its entries
WalkStep ==
    /\ pc = "walk"
    /\ frames # <<>>
    /\ \E s \in Top.todo : SkipTypeOnly(s) \/ SkipTraversed(s) \/ Recurse(s)
    /\ UNCHANGED <<ruleVars, graphVars, storeVars>>

\* the count run_once compares with max_deps
NumInternalDeps == Cardinality(InternalDeps(file_path, traversed))

\* the diagnostic run_once builds
NoExcessiveDepsDiagnostic ==
    [file |-> file_path,
     count |-> to_string(NumInternalDeps),
     limit |-> u32_to_string(max_deps),
     deps |-> IF should_print_deps THEN traversed ELSE {}]

\* run_once after the outermost walk_deps returned: count, compare, report
RunOnceReport ==
    /\ pc = "walk"
    /\ frames = <<>>
    /\ pc' = "done"
    /\ diagnostics' = IF usize_gt_u32(NumInternalDeps, max_deps)
                      THEN Append(diagnostics, NoExcessiveDepsDiagnostic)
                      ELSE diagnostics
    /\ UNCHANGED <<traversed, stack, frames, called, explored>>
    /\ UNCHANGED <<ruleVars, graphVars, storeVars>>

(***************************************************************************)
(* Specification of one lint run of no-excessive-deps                      *)
(***************************************************************************)

\* AstNodes::default()
StoreIdle ==
    /\ root = 0
    /\ nodes = <<>>
    /\ parent_ids = <<>>
    /\ panicked = FALSE
    /\ returned = <<>>
    /\ root_set = FALSE

\* no configuration has been read: NoRestrictedImports::default() and
\* NoExportAll::default()
LintIdle ==
    /\ config = [t |-> "null"]
    /\ configured = {}
    /\ no_restricted_imports = [paths |-> <<>>]
    /\ no_export_all = [show_dependency_size |-> FALSE, ignore_types |-> FALSE]
    /\ entries = <<>>

\* no file is being dispatched
DispatchIdle ==
    /\ tree = <<>>
    /\ cursor = 0
    /\ calls = <<>>

\* TypeScriptAnnotations::new, before any method definition
AnnotationsIdle ==
    /\ assignments = <<>>
    /\ has_super_call = FALSE
    /\ def = None
    /\ hook = "enter"
    /\ processed = 0

ExtraIdle == LintIdle /\ DispatchIdle /\ AnnotationsIdle

\* the state before run_once, for a rule with the given limits and a module
\* graph whose requests are made by import entries of the given kinds
InitWith(limits, plain) ==
    /\ max_deps \in limits
    /\ ignore_types \in BOOLEAN
    /\ should_print_deps = TRUE
    /\ file_path \in FilePaths
    /\ \E E \in EdgeSets : \E kinds \in [E -> EntryKinds(plain, ignore_types)] :
          /\ loaded_modules = LoadedModulesOf(E)
          /\ import_entries = ImportEntriesOf(E, kinds)
    /\ pc = "idle"
    /\ traversed = {}
    /\ stack = <<>>
    /\ frames = <<>>
    /\ diagnostics = <<>>
    /\ called = [p \in Paths |-> 0]
    /\ explored = [p \in Paths |-> 0]
    /\ StoreIdle
    /\ ExtraIdle

\* a rule with the default limit (Default::default) over every module graph
Init == InitWith({U32_MAX}, FALSE)

Next ==
    \/ RunOnceBegin /\ UNCHANGED extraVars
    \/ WalkStep /\ UNCHANGED extraVars
    \/ RunOnceReport /\ UNCHANGED extraVars

Spec == Init /\ [][Next]_vars

\* a rule with a configured limit; walk_deps does not read max_deps, and the
\* graphs tried tell type-only requests from value requests and no more
InitLimit == InitWith(MaxDepsValues, TRUE)

SpecLimit == InitLimit /\ [][Next]_vars

(***************************************************************************)
(* The node store: AstNodes                                                *)
(***************************************************************************)

\* the kinds of AST node told apart: set_root accepts a Program only
Kinds == {"Program", "Other"}

\* AstNode::new: the id is 0 until add_node assigns it
NewNode(kind) == [id |-> 0, kind |-> kind]

\* the ids the store holds, AstNodeId 0 .. len - 1 (the tables are 1-based
\* sequences here: id i is at index i + 1)
Ids == 0..(Len(parent_ids) - 1)

\* parent_id(id)
parent_id(id) == parent_ids[id + 1]

\* get_node(id)
get_node(id) == nodes[id + 1]

\* (variant: the node keeps the id it came with)
add_node_KeepsId(node, parent) ==
    /\ ~panicked
    /\ Len(parent_ids) < MaxNodes
    /\ parent_ids' = Append(parent_ids, parent)
    /\ nodes' = Append(nodes, node)
    /\ returned' = Append(returned, Len(parent_ids))
    /\ UNCHANGED <<root, panicked, root_set>>

\* add_node(node, parent_id): parent_ids.push returns the new index, which
\* becomes the node's id and the result
add_node(node, parent) ==
    /\ ~panicked
    /\ Len(parent_ids) < MaxNodes
    /\ parent_ids' = Append(parent_ids, parent)
    /\ nodes' = Append(nodes, [node EXCEPT !.id = Len(parent_ids)])
    /\ returned' = Append(returned, Len(parent_ids))
    /\ UNCHANGED <<root, panicked, root_set>>

\* set_root(root) with a Program node: the root becomes the node's id
set_root(node) ==
    /\ ~panicked
    /\ node.kind = "Program"
    /\ root' = node.id
    /\ root_set' = TRUE
    /\ UNCHANGED <<nodes, parent_ids, panicked, returned>>

\* set_root(root) with any other node: unreachable!() panics
set_root_panics(node) ==
    /\ ~panicked
    /\ node.kind # "Program"
    /\ panicked' = TRUE
    /\ root_set' = TRUE
    /\ UNCHANGED <<root, nodes, parent_ids, returned>>

\* the first `fuel` items of successors(Some(id), |n| parent_ids[n])
RECURSIVE Successors_(_, _)
Successors_(id, fuel) ==
    IF fuel = 0
    THEN <<>>
    ELSE IF parent_id(id) = None
         THEN <<id>>
         ELSE <<id>> \o Successors_(parent_id(id)[1], fuel - 1)

\* (variant: the walk starts at the parent, as the doc comment words it)
ancestors_FromParent(id) ==
    IF parent_id(id) = None
    THEN <<>>
    ELSE Successors_(parent_id(id)[1], Len(parent_ids) + 1)

\* ancestors(id): the items the iterator yields; it is finite exactly when
\* fewer than len + 1 items come out
ancestors(id) == Successors_(id, Len(parent_ids) + 1)

\* the AstNode values a caller can hand to set_root: a new node, or a copy of
\* a stored one
NodeValues == {NewNode(k) : k \in Kinds} \cup {nodes[i] : i \in DOMAIN nodes}

\* the parent ids a caller passes to add_node: none, an id already returned,
\* or the id the call is about to return
ParentValues == {None} \cup {Some(p) : p \in 0..Len(parent_ids)}

AddNode == \E k \in Kinds, parent \in ParentValues : add_node(NewNode(k), parent)

SetRoot == \E n \in NodeValues : set_root(n) \/ set_root_panics(n)

\* the walker is not running while the store is built
WalkIdle ==
    /\ max_deps = U32_MAX
    /\ ignore_types = FALSE
    /\ should_print_deps = TRUE
    /\ file_path = EntryPath
    /\ loaded_modules = LoadedModulesOf({})
    /\ import_entries = [m \in Paths |-> {}]
    /\ pc = "idle"
    /\ traversed = {}
    /\ stack = <<>>
    /\ frames = <<>>
    /\ diagnostics = <<>>
    /\ called = [p \in Paths |-> 0]
    /\ explored = [p \in Paths |-> 0]

InitStore == StoreIdle /\ WalkIdle /\ ExtraIdle

NextStore ==
    \/ AddNode /\ UNCHANGED <<ruleVars, graphVars, walkVars, extraVars>>
    \/ SetRoot /\ UNCHANGED <<ruleVars, graphVars, walkVars, extraVars>>

SpecStore == InitStore /\ [][NextStore]_vars

(***************************************************************************)
(* Rule configuration: serde_json values and from_configuration            *)
(***************************************************************************)

\* serde_json::Value, told apart by the tag t
Null == [t |-> "null"]

Bool(b) == [t |-> "bool", b |-> b]

Number(n) == [t |-> "number", n |-> n]

String(s) == [t |-> "string", s |-> s]

Array(items) == [t |-> "array", items |-> items]

Object(fields) == [t |-> "object", fields |-> fields]

\* serde_json::Number: a non-negative integer is a u64, held as four 16-bit
\* limbs, most significant first; a negative integer; a float
PosInt(l3, l2, l1, l0) == [kind |-> "PosInt", limbs |-> <<l3, l2, l1, l0>>]

NegInt == [kind |-> "NegInt"]

Float == [kind |-> "Float"]

\* Value::get(index): an item of an array, None for anything else
get_index(v, i) ==
    IF v.t = "array" /\ (i + 1) \in DOMAIN v.items THEN Some(v.items[i + 1]) ELSE None

\* Value::get(key): a member of an object, None for anything else
get_key(v, k) ==
    IF v.t = "object" /\ k \in DOMAIN v.fields THEN Some(v.fields[k]) ELSE None

\* value[key]: a member of an object, Null for anything else
index_key(v, k) ==
    IF v.t = "object" /\ k \in DOMAIN v.fields THEN v.fields[k] ELSE Null

as_array(v) == IF v.t = "array" THEN Some(v.items) ELSE None

as_bool(v) == IF v.t = "bool" THEN Some(v.b) ELSE None

as_str(v) == IF v.t = "string" THEN Some(v.s) ELSE None

as_number(v) == IF v.t = "number" THEN Some(v.n) ELSE None

\* Number::as_u64: the value of a non-negative integer
as_u64(n) == IF n.kind = "PosInt" THEN Some(n.limbs) ELSE None

\* (variant: a conversion that saturates, as u32::try_from(n).unwrap_or(u32::MAX))
as_u32_Saturating(limbs) ==
    IF limbs[1] = 0 /\ limbs[2] = 0 THEN <<limbs[3], limbs[4]>> ELSE U32_MAX

\* `n as u32` for a u64 n: the low 32 bits
as_u32(limbs) == <<limbs[3], limbs[4]>>

\* obj.and_then(|v| v.get(key))
and_then_get(obj, k) == IF obj = None THEN None ELSE get_key(obj[1], k)

\* Option::unwrap_or
unwrap_or(o, default) == IF o = None THEN default ELSE o[1]

\* obj.and_then(|v| v.get(key)).and_then(Value::as_bool).unwrap_or(default)
bool_option(obj, k, default) ==
    LET v == and_then_get(obj, k)
    IN  IF v = None THEN default ELSE unwrap_or(as_bool(v[1]), default)

\* obj.and_then(|v| v.get("maxDeps")).and_then(as_number).and_then(as_u64)
\*    .map_or(u32::MAX, |n| n as u32)
max_deps_option(obj) ==
    LET v == and_then_get(obj, "maxDeps")
        n == IF v = None THEN None ELSE as_number(v[1])
        u == IF n = None THEN None ELSE as_u64(n[1])
    IN  IF u = None THEN U32_MAX ELSE as_u32(u[1])

\* NoExcessiveDeps::from_configuration
NoExcessiveDeps_from_configuration(value) ==
    LET obj == get_index(value, 0)
    IN  [max_deps |-> max_deps_option(obj),
         ignore_types |-> bool_option(obj, "ignoreTypes", FALSE),
         should_print_deps |-> bool_option(obj, "shouldPrintDeps", TRUE)]

\* NoExportAll::from_configuration
NoExportAll_from_configuration(value) ==
    LET obj == get_index(value, 0)
    IN  [show_dependency_size |-> bool_option(obj, "showDependencySize", FALSE),
         ignore_types |-> bool_option(obj, "ignoreTypes", FALSE)]

\* the array NoRestrictedImports::from_configuration maps over:
\* obj.get("paths").and_then(Value::as_array).unwrap_or(&vec![])
paths_option(value) ==
    LET v == get_key(value, "paths")
    IN  IF v = None THEN <<>> ELSE unwrap_or(as_array(v[1]), <<>>)

\* p["path"].as_str().unwrap() panics when the entry has no string `path`
path_unwrap_panics(p) == as_str(index_key(p, "path")) = None

\* the closure of the map: one PathConfig per entry
PathConfig(p) ==
    [path |-> as_str(index_key(p, "path"))[1],
     message |-> unwrap_or(as_str(index_key(p, "message")), "")]

\* the values tried for an option of the rules: booleans, numbers inside and
\* outside the u32 range (2, 2^32 and 2^32 + 2), a negative number, a float,
\* a string, null
OptionValues ==
    {Bool(TRUE), Bool(FALSE), Number(PosInt(0, 0, 0, 2)), Number(PosInt(0, 1, 0, 0)),
     Number(PosInt(0, 1, 0, 2)), Number(NegInt), Number(Float), String("2"), Null}

OptionKeys == {"maxDeps", "ignoreTypes", "shouldPrintDeps", "showDependencySize"}

\* the option objects tried: up to MaxKeys of the keys, each with any value
OptionObjects ==
    UNION {[K -> OptionValues] : K \in {X \in SUBSET OptionKeys : Cardinality(X) <= MaxKeys}}

\* the entries tried in the `paths` array: both members, no message, no path,
\* a path that is no string, an entry that is no object
PathEntries ==
    {Object([path |-> String("moment"), message |-> String("Do not use 'moment'")]),
     Object([path |-> String("moment-timezone"),
             message |-> String("Do not use 'moment-timezone'")]),
     Object([path |-> String("moment")]),
     Object([message |-> String("Do not use this")]),
     Object([path |-> Number(PosInt(0, 0, 0, 2))]),
     String("moment")}

\* the values tried for `paths`: arrays of up to MaxPaths entries, and values
\* that are no array
PathsValues ==
    {Array(a) : a \in UNION {[1..n -> PathEntries] : n \in 0..MaxPaths}}
        \cup {String("moment"), Null}

\* the configuration values tried: null, an empty array, an array holding
\* an option object (the shape NoExcessiveDeps and NoExportAll read), an
\* object with or without `paths` (the shape NoRestrictedImports reads)
ConfigValues ==
    {Null, Array(<<>>), Array(<<Bool(TRUE)>>)}
        \cup {Array(<<Object(o)>>) : o \in OptionObjects}
        \cup {Object([paths |-> v]) : v \in PathsValues}
        \cup {Object([ignoreTypes |-> Bool(TRUE)])}

\* the module requests of the import entries tried
ModuleRequests == {"moment", "moment-timezone", "./malformed.js"}

\* import entry number i of the file: its module_request has a name and the
\* span of the specifier in the source text
ImportEntry(name, i) ==
    [module_request |-> [name |-> name, span |-> [start |-> 32 * i, end |-> 32 * i + 16]]]

\* module_record.import_entries of the linted file
EntriesValues ==
    {[i \in 1..n |-> ImportEntry(names[i], i)] :
        <<n, names>> \in {x \in (0..MaxEntries) \X [1..MaxEntries -> ModuleRequests] :
                            \A j \in (x[1] + 1)..MaxEntries : x[2][j] = "moment"}}

(***************************************************************************)
(* Building the rules and NoRestrictedImports::run_once                    *)
(***************************************************************************)

\* NoExcessiveDeps::from_configuration(config)
FromConfigurationNoExcessiveDeps ==
    /\ ~panicked
    /\ "NoExcessiveDeps" \notin configured
    /\ max_deps' = NoExcessiveDeps_from_configuration(config).max_deps
    /\ ignore_types' = NoExcessiveDeps_from_configuration(config).ignore_types
    /\ should_print_deps' = NoExcessiveDeps_from_configuration(config).should_print_deps
    /\ configured' = configured \cup {"NoExcessiveDeps"}
    /\ UNCHANGED <<file_path, config, no_restricted_imports, no_export_all, entries>>
    /\ UNCHANGED <<graphVars, walkVars, storeVars, dispatchVars, annotationVars>>

\* NoExportAll::from_configuration(config)
FromConfigurationNoExportAll ==
    /\ ~panicked
    /\ "NoExportAll" \notin configured
    /\ no_export_all' = NoExportAll_from_configuration(config)
    /\ configured' = configured \cup {"NoExportAll"}
    /\ UNCHANGED <<config, no_restricted_imports, entries>>
    /\ UNCHANGED <<ruleVars, graphVars, walkVars, storeVars, dispatchVars, annotationVars>>

\* (variant: an entry without a string `path` is left out)
NoRestrictedImports_from_configuration_Lenient(value) ==
    LET kept == SelectSeq(paths_option(value), LAMBDA p : ~path_unwrap_panics(p))
    IN  [panics |-> FALSE, paths |-> [i \in 1..Len(kept) |-> PathConfig(kept[i])]]

\* NoRestrictedImports::from_configuration: the collected PathConfigs, or the
\* panic of the first unwrap() that finds no string
NoRestrictedImports_from_configuration(value) ==
    LET items == paths_option(value)
    IN  IF \E i \in DOMAIN items : path_unwrap_panics(items[i])
        THEN [panics |-> TRUE, paths |-> <<>>]
        ELSE [panics |-> FALSE, paths |-> [i \in DOMAIN items |-> PathConfig(items[i])]]

\* NoRestrictedImports::from_configuration(config)
FromConfigurationNoRestrictedImports ==
    /\ ~panicked
    /\ "NoRestrictedImports" \notin configured
    /\ LET r == NoRestrictedImports_from_configuration(config)
       IN  /\ panicked' = r.panics
           /\ no_restricted_imports' = IF r.panics THEN no_restricted_imports
                                       ELSE [paths |-> r.paths]
           /\ configured' = IF r.panics THEN configured
                            ELSE configured \cup {"NoRestrictedImports"}
    /\ UNCHANGED <<config, no_export_all, entries>>
    /\ UNCHANGED <<root, nodes, parent_ids, returned, root_set>>
    /\ UNCHANGED <<ruleVars, graphVars, walkVars, dispatchVars, annotationVars>>

\* (variant: the last configured entry with the path)
find_path_Last(paths, name) ==
    LET hits == {i \in DOMAIN paths : paths[i].path = name}
    IN  IF hits = {} THEN None
        ELSE Some(paths[CHOOSE i \in hits : \A j \in hits : j <= i])

\* self.paths.iter().find(|p| p.path == module_request): the first
\* configured entry whose path equals the name
find_path(paths, name) ==
    LET hits == {i \in DOMAIN paths : paths[i].path = name}
    IN  IF hits = {} THEN None
        ELSE Some(paths[CHOOSE i \in hits : \A j \in hits : i <= j])

\* the diagnostics the loop of run_once reports for the import entries es
RECURSIVE RestrictedDiagnostics(_, _)
RestrictedDiagnostics(paths, es) ==
    IF es = <<>> THEN <<>>
    ELSE LET fail == find_path(paths, Head(es).module_request.name)
             rest == RestrictedDiagnostics(paths, Tail(es))
         IN  IF fail = None THEN rest
             ELSE <<[rule |-> "NoRestrictedImports",
                     message |-> fail[1].message,
                     span |-> Head(es).module_request.span]>> \o rest

\* NoRestrictedImports::run_once on the linted file
RunOnceNoRestrictedImports ==
    /\ ~panicked
    /\ "NoRestrictedImports" \in configured
    /\ pc = "idle"
    /\ pc' = "done"
    /\ diagnostics' = diagnostics \o
                        RestrictedDiagnostics(no_restricted_imports.paths, entries)
    /\ UNCHANGED <<traversed, stack, frames, called, explored>>
    /\ UNCHANGED <<ruleVars, graphVars, storeVars, extraVars>>

\* a lint run that builds the rules from one configuration value and runs
\* the restricted-imports check over the import entries of one file
InitLint ==
    /\ StoreIdle /\ WalkIdle /\ DispatchIdle /\ AnnotationsIdle
    /\ config \in ConfigValues
    /\ configured = {}
    /\ no_restricted_imports = [paths |-> <<>>]
    /\ no_export_all = [show_dependency_size |-> FALSE, ignore_types |-> FALSE]
    /\ entries \in EntriesValues

NextLint ==
    \/ FromConfigurationNoExcessiveDeps
    \/ FromConfigurationNoExportAll
    \/ FromConfigurationNoRestrictedImports
    \/ RunOnceNoRestrictedImports

SpecLint == InitLint /\ [][NextLint]_vars

(***************************************************************************)
(* NoExportAll::run and rule dispatch over one file                        *)
(***************************************************************************)

\* the AstKind of node number i of the file, as far as the rules tell kinds
\* apart, with the source of an export-all declaration and the node's span
AstKind(kind, source, i) ==
    [kind |-> kind, source |-> source, span |-> [start |-> 32 * i, end |-> 32 * i + 24]]

\* the sources of the export-all declarations tried; `./missing` is a
\* specifier that no module graph resolves
ExportSources == {"./a", "./missing"}

\* the kinds of the nodes after the Program node
NodeKinds ==
    {<<"ExportAllDeclaration", src>> : src \in ExportSources} \cup {<<"ImportDeclaration", "">>}

\* semantic.nodes() of the linted file: a Program and up to MaxNodes - 1 more
\* nodes, in the order add_node stored them
TreeValues ==
    {[i \in 1..(Len(t) + 1) |->
        IF i = 1 THEN AstKind("Program", "", i) ELSE AstKind(t[i - 1][1], t[i - 1][2], i)] :
        t \in UNION {[1..n -> NodeKinds] : n \in 0..(MaxNodes - 1)}}

\* the node the walk of the tree is at
Node == tree[cursor + 1]

\* module_record.loaded_modules.get(source)
get_loaded_module(source) ==
    IF source \in DOMAIN loaded_modules[file_path]
    THEN Some(loaded_modules[file_path][source])
    ELSE None

\* NoExportAllDiagnostic(span, help): help is empty or the sentence with the
\* decimal count
NoExportAllDiagnostic(span, help) ==
    [rule |-> "NoExportAll", span |-> span, help |-> help]

\* format!("Number of dependencies introduced from this re-export: {}", n)
DependencySizeHelp(n) ==
    <<"Number of dependencies introduced from this re-export: ">> \o to_string(n)

\* run on a node that is no export-all declaration: nothing happens
RunOther ==
    /\ Node.kind # "ExportAllDeclaration"
    /\ cursor' = cursor + 1
    /\ UNCHANGED <<pc, traversed, stack, frames, diagnostics, called, explored, panicked>>

\* run on an export-all declaration without show_dependency_size
RunExportAll ==
    /\ Node.kind = "ExportAllDeclaration"
    /\ ~no_export_all.show_dependency_size
    /\ diagnostics' = Append(diagnostics, NoExportAllDiagnostic(Node.span, <<>>))
    /\ cursor' = cursor + 1
    /\ UNCHANGED <<pc, traversed, stack, frames, called, explored, panicked>>

\* run with show_dependency_size on an export-all declaration whose source
\* is not in loaded_modules: unwrap() panics
RunExportAllPanics ==
    /\ Node.kind = "ExportAllDeclaration"
    /\ no_export_all.show_dependency_size
    /\ get_loaded_module(Node.source) = None
    /\ panicked' = TRUE
    /\ UNCHANGED <<pc, traversed, stack, frames, diagnostics, called, explored, cursor>>

\* run with show_dependency_size on an export-all declaration whose source
\* is loaded: State::default(), walk_deps(re-exported module)
RunExportAllWalk ==
    /\ Node.kind = "ExportAllDeclaration"
    /\ no_export_all.show_dependency_size
    /\ get_loaded_module(Node.source) # None
    /\ LET m == get_loaded_module(Node.source)[1]
       IN  /\ pc' = "export_walk"
           /\ traversed' = {}
           /\ frames' = CallWalkDeps(<<>>, <<>>, m).frames
           /\ stack' = CallWalkDeps(<<>>, <<>>, m).stack
           /\ called' = CalledAfter(m)
           /\ explored' = ExploredAfter(m)
    /\ UNCHANGED <<diagnostics, cursor, panicked>>

\* one iteration of the loop of NoExportAll::walk_deps (the same code as
\* NoExcessiveDeps::walk_deps; both rules are built from one configuration,
\* so ignore_types is also the flag of this rule)
ExportWalkStep ==
    /\ ~panicked
    /\ pc = "export_walk"
    /\ frames # <<>>
    /\ ignore_types = no_export_all.ignore_types
    /\ \E s \in Top.todo : SkipTypeOnly(s) \/ SkipTraversed(s) \/ Recurse(s)
    /\ UNCHANGED <<ruleVars, graphVars, storeVars, extraVars>>

\* run after walk_deps returned: count the internal dependencies and report
RunExportAllReport ==
    /\ ~panicked
    /\ pc = "export_walk"
    /\ frames = <<>>
    /\ pc' = "idle"
    /\ diagnostics' = Append(diagnostics,
          NoExportAllDiagnostic(Node.span,
              DependencySizeHelp(Cardinality(InternalDeps(file_path, traversed)))))
    /\ cursor' = cursor + 1
    /\ UNCHANGED <<traversed, stack, frames, called, explored, tree, calls>>
    /\ UNCHANGED <<ruleVars, graphVars, storeVars, lintVars, annotationVars>>

\* (variant: the whole-file pass does not wait for the node walk)
VisitFileOnce_Early ==
    /\ ~panicked
    /\ RunOnceBegin
    /\ calls' = Append(calls, [call |-> "run_once", node |-> None])
    /\ UNCHANGED <<tree, cursor, lintVars, annotationVars>>

\* the dispatcher calls run_once of the rules once the node walk is complete
VisitFileOnce ==
    /\ ~panicked
    /\ cursor = Len(tree)
    /\ RunOnceBegin
    /\ calls' = Append(calls, [call |-> "run_once", node |-> None])
    /\ UNCHANGED <<tree, cursor, lintVars, annotationVars>>

\* the dispatcher calls run of the rules on the next node of the tree, in
\* the order of the node store
VisitNode ==
    /\ ~panicked
    /\ pc = "idle"
    /\ cursor < Len(tree)
    /\ calls' = Append(calls, [call |-> "run", node |-> Some(cursor)])
    /\ RunOther \/ RunExportAll \/ RunExportAllPanics \/ RunExportAllWalk
    /\ UNCHANGED <<root, nodes, parent_ids, returned, root_set>>
    /\ UNCHANGED <<tree, ruleVars, graphVars, lintVars, annotationVars>>

\* the module requests of the graphs the dispatched rules walk
DispatchRequests ==
    {<<EntryPath, "./a">>, <<EntryPath, "pkg">>, <<APath, "./b">>, <<BPath, "./entry">>}

\* dispatch over one file: the tree and the module graph are complete, both
\* rules are built from one configuration
InitDispatch ==
    /\ max_deps = U32_MAX
    /\ ignore_types \in BOOLEAN
    /\ should_print_deps = TRUE
    /\ file_path = EntryPath
    /\ \E E \in {X \in SUBSET DispatchRequests : Cardinality(X) <= MaxEdges} :
          \E kinds \in [E -> IF ignore_types THEN {{TRUE}, {FALSE}} ELSE {{FALSE}}] :
             /\ loaded_modules = LoadedModulesOf(E)
             /\ import_entries = ImportEntriesOf(E, kinds)
    /\ pc = "idle"
    /\ traversed = {}
    /\ stack = <<>>
    /\ frames = <<>>
    /\ diagnostics = <<>>
    /\ called = [p \in Paths |-> 0]
    /\ explored = [p \in Paths |-> 0]
    /\ StoreIdle
    /\ config = Null
    /\ configured = {"NoExcessiveDeps", "NoExportAll"}
    /\ no_restricted_imports = [paths |-> <<>>]
    /\ \E show \in BOOLEAN :
          no_export_all = [show_dependency_size |-> show, ignore_types |-> ignore_types]
    /\ entries = <<>>
    /\ tree \in TreeValues
    /\ cursor = 0
    /\ calls = <<>>
    /\ AnnotationsIdle

NextDispatch ==
    \/ VisitNode
    \/ ExportWalkStep
    \/ RunExportAllReport
    \/ VisitFileOnce
    \/ ~panicked /\ WalkStep /\ UNCHANGED extraVars
    \/ ~panicked /\ RunOnceReport /\ UNCHANGED extraVars

SpecDispatch == InitDispatch /\ [][NextDispatch]_vars

(***************************************************************************)
(* TypeScriptAnnotations: parameter properties of constructors              *)
(***************************************************************************)

\* statement number i of a body: an expression statement that is a super()
\* call ("super") or TypeScript-only syntax ("typescript"), or another
\* statement ("other")
Stmt(kind, i) == [kind |-> kind, name |-> "", id |-> i]

\* create_this_property_assignment(name): the statement `this.name = name`
create_this_property_assignment(name) == [kind |-> "assignment", name |-> name, id |-> 0]

\* the parameters tried: parameter i is named ParamNames[i], is public or
\* private, and its pattern is an identifier or not
ParamNames == <<"a", "b", "c", "d">>

\* a parameter property with an identifier, one whose pattern is no
\* identifier, and a parameter that is not public
ParamKinds == {<<"public", TRUE>>, <<"public", FALSE>>, <<"private", TRUE>>}

ParamsValues ==
    {[i \in 1..n |->
        [accessibility |-> k[i][1],
         identifier |-> IF k[i][2] THEN Some(ParamNames[i]) ELSE None]] :
        <<n, k>> \in {x \in (0..MaxParams) \X [1..MaxParams -> ParamKinds] :
                        \A j \in (x[1] + 1)..MaxParams : x[2][j] = <<"public", TRUE>>}}

\* the bodies tried: no body, or up to MaxStmts statements
BodyValues ==
    {None} \cup
    {Some([i \in 1..n |-> Stmt(k[i], i)]) :
        <<n, k>> \in {x \in (0..MaxStmts) \X [1..MaxStmts -> {"super", "typescript", "other"}] :
                        \A j \in (x[1] + 1)..MaxStmts : x[2][j] = "other"}}

\* the method definitions tried; `source` keeps the body as it was written
MethodValues ==
    {[kind |-> k, params |-> ps, body |-> b, source |-> b] :
        k \in {"Constructor", "Method"}, ps \in ParamsValues, b \in BodyValues}

\* the assignments transform_method_definition pushes for a constructor: one
\* per public parameter whose pattern is an identifier
ParameterAssignments(d) ==
    IF d.kind # "Constructor" THEN <<>>
    ELSE LET props == SelectSeq(d.params,
                        LAMBDA q : q.accessibility = "public" /\ q.identifier # None)
         IN  [i \in 1..Len(props) |-> create_this_property_assignment(props[i].identifier[1])]

\* stmts.retain(..): expression statements of TypeScript-only syntax go
retain(stmts) == SelectSeq(stmts, LAMBDA st : st.kind # "typescript")

\* super_indexes: the indexes, counted by stmts.iter().rev().enumerate(), of
\* the super() call statements, in the order they are pushed
super_indexes(stmts) ==
    LET hits == {i \in 0..(Len(stmts) - 1) : stmts[Len(stmts) - i].kind = "super"}
        RECURSIVE Ascending(_)
        Ascending(S) ==
            IF S = {} THEN <<>>
            ELSE LET m == CHOOSE x \in S : \A y \in S : x <= y
                 IN  <<m>> \o Ascending(S \ {m})
    IN  Ascending(hits)

\* stmts.splice((index + 1)..=index, items): the empty range at index + 1, so
\* the items go in after the first index + 1 statements
splice(stmts, index, items) ==
    SubSeq(stmts, 1, index + 1) \o items \o SubSeq(stmts, index + 2, Len(stmts))

\* for index in super_indexes.iter().rev() { stmts.splice(..) }
RECURSIVE splice_all(_, _, _)
splice_all(stmts, indexes, items) ==
    IF indexes = <<>> THEN stmts
    ELSE splice_all(splice(stmts, indexes[Len(indexes)], items),
                    SubSeq(indexes, 1, Len(indexes) - 1), items)

\* transform_statements_on_exit(stmts): the statements left in the list
statements_on_exit(stmts) ==
    IF assignments # <<>> /\ super_indexes(retain(stmts)) # <<>>
    THEN splice_all(retain(stmts), super_indexes(retain(stmts)), assignments)
    ELSE retain(stmts)

\* the state the transformer leaves alone
annotationFrame == <<ruleVars, graphVars, walkVars, storeVars, lintVars, dispatchVars>>

\* transform_method_definition on the next method definition of the program
TransformMethodDefinition ==
    /\ hook = "enter"
    /\ processed < MaxMethods
    /\ \E d \in MethodValues :
          /\ def' = Some(d)
          /\ assignments' = assignments \o ParameterAssignments(d)
          /\ hook' = IF d.body = None THEN "exit" ELSE "statements"
    /\ UNCHANGED <<has_super_call, processed>>
    /\ UNCHANGED annotationFrame

\* transform_statements_on_exit on the statements of the method's body
TransformStatementsOnExit ==
    /\ hook = "statements"
    /\ def' = Some([def[1] EXCEPT !.body = Some(statements_on_exit(def[1].body[1]))])
    /\ has_super_call' =
          IF assignments # <<>> /\ super_indexes(retain(def[1].body[1])) # <<>>
          THEN TRUE
          ELSE has_super_call
    /\ hook' = "exit"
    /\ UNCHANGED <<assignments, processed>>
    /\ UNCHANGED annotationFrame

\* transform_method_definition_on_exit: for a constructor with pending
\* assignments, clear them when has_super_call is set, otherwise move them to
\* the end of the body (an empty body is made when there is none)
TransformMethodDefinitionOnExit ==
    /\ hook = "exit"
    /\ IF def[1].kind = "Constructor" /\ assignments # <<>>
       THEN /\ assignments' = <<>>
            /\ def' = IF has_super_call THEN def
                      ELSE Some([def[1] EXCEPT !.body =
                                  Some(unwrap_or(def[1].body, <<>>) \o assignments)])
       ELSE UNCHANGED <<assignments, def>>
    /\ hook' = "enter"
    /\ processed' = processed + 1
    /\ UNCHANGED has_super_call
    /\ UNCHANGED annotationFrame

\* one transformer instance over the method definitions of a program
InitAnnotations == StoreIdle /\ WalkIdle /\ LintIdle /\ DispatchIdle /\ AnnotationsIdle

NextAnnotations ==
    \/ TransformMethodDefinition
    \/ TransformStatementsOnExit
    \/ TransformMethodDefinitionOnExit

SpecAnnotations == InitAnnotations /\ [][NextAnnotations]_vars

(***************************************************************************)
(* The module graph as the properties read it                              *)
(***************************************************************************)

\* the edges of the graph: <<module, specifier>> with a loaded module
EdgePairs == UNION {{<<m, s>> : s \in DOMAIN loaded_modules[m]} : m \in Paths}

Target(e) == loaded_modules[e[1]][e[2]]

\* a path with a node_modules component
Vendored(p) == "node_modules" \in {p[i] : i \in DOMAIN p}

\* every import entry of the edge's module that requests the edge's specifier
\* is type-only (also when there is no such entry)
TypeOnly(e) ==
    ~\E x \in import_entries[e[1]] : x.module_request = e[2] /\ ~x.is_type

\* the targets of the edges leaving the modules of S; with `filter` the edges
\* skipped as type-only are left out, without `through` the edges of vendored
\* modules are left out
Successors(S, filter, through) ==
    UNION {{loaded_modules[m][s] :
                s \in {k \in DOMAIN loaded_modules[m] :
                          ~(filter /\ ignore_types /\ TypeOnly(<<m, k>>))}} :
           m \in {x \in S : through \/ ~Vendored(x)}}

RECURSIVE Grow(_, _, _)
Grow(R, filter, through) ==
    LET more == R \cup Successors(R \cup {file_path}, filter, through)
    IN  IF more = R THEN R ELSE Grow(more, filter, through)

\* the paths reachable from the start by one or more edges
Reachable(filter, through) == Grow({}, filter, through)

\* the outermost walk_deps call has returned
WalkReturned == pc # "idle" /\ frames = <<>>

\* the graph has exactly the edges es, each given as <<module, specifier>>
GraphIs(es) == EdgePairs = es

(***************************************************************************)
(* C1: walk_deps terminates on every module graph                          *)
(***************************************************************************)

\* what is left to do: paths not yet inserted, weighted by the most keys one
\* call can add, plus the keys waiting in the running calls, plus the report
WalkMeasure ==
    LET RECURSIVE Waiting(_)
        Waiting(i) == IF i = 0 THEN 0 ELSE Cardinality(frames[i].todo) + Waiting(i - 1)
    IN  Cardinality(Paths \ traversed) * (Cardinality(Specifiers) + 1)
            + Waiting(Len(frames))
            + (IF pc = "walk" THEN 1 ELSE 0)

\* C1: for every module graph (cycles and self-imports included) and both
\* values of ignore_types, every step of the traversal strictly decreases a
\* natural-number measure and a step is possible until run_once is done, so
\* walk_deps terminates.
C1_WalkTerminates ==
    /\ [][pc = "walk" => WalkMeasure' < WalkMeasure]_vars
    /\ [](WalkMeasure >= 0 /\ (pc # "done" => ENABLED Next))

\* a traversal of a cycle through the start has returned
C1_Witness ==
    /\ WalkReturned
    /\ <<APath, "./entry">> \in EdgePairs
    /\ EntryPath \in traversed
    /\ explored[APath] = 1


(***************************************************************************)
(* C2: what the visited set holds when walk_deps returns                   *)
(***************************************************************************)

\* C2: when walk_deps has returned, every path of state.traversed is
\* reachable from the start by one or more non-filtered edges, and every
\* non-vendored module reachable that way without passing through a vendored
\* module is in state.traversed.
C2_VisitedIsReachable ==
    WalkReturned =>
        /\ traversed \subseteq Reachable(TRUE, TRUE)
        /\ {p \in Reachable(TRUE, FALSE) : ~Vendored(p)} \subseteq traversed

\* the chain entry -> a -> b -> c was walked to its end
C2_Witness ==
    /\ WalkReturned
    /\ GraphIs({<<EntryPath, "./a">>, <<APath, "./b">>, <<BPath, "./c">>})
    /\ traversed = {APath, BPath, CPath}

(***************************************************************************)
(* C3: how often the edges of a module are explored                        *)
(***************************************************************************)

\* C3 as claimed: no module has its edges explored twice, and when
\* walk_deps has returned every non-vendored path reachable through
\* non-filtered edges, the start's own path included, was explored exactly
\* once.
C3_ExploredExactlyOnce ==
    /\ \A p \in Paths : explored[p] <= 1
    /\ WalkReturned =>
          \A p \in Reachable(TRUE, FALSE) : ~Vendored(p) => explored[p] = 1

\* C3 as amended: every non-vendored path other than the start's that is
\* reachable through non-filtered edges has its edges explored exactly once
\* and never twice; the edges of the start module are explored once when the
\* traversal begins and a second time when a cycle leads back to the start.
C3_ExploredOnceButStart ==
    /\ \A p \in Paths \ {file_path} : explored[p] <= 1
    /\ explored[file_path] <= 2
    /\ WalkReturned =>
          /\ \A p \in Reachable(TRUE, FALSE) \ {file_path} :
                ~Vendored(p) => explored[p] = 1
          /\ ~Vendored(file_path) =>
                explored[file_path] = IF file_path \in Reachable(TRUE, FALSE) THEN 2 ELSE 1

\* a cycle led back to the start: its edges were explored twice, those of
\* the other module of the cycle once
C3_Witness ==
    /\ WalkReturned
    /\ GraphIs({<<EntryPath, "./a">>, <<APath, "./entry">>, <<APath, "./b">>})
    /\ explored[EntryPath] = 2
    /\ explored[APath] = 1
    /\ explored[BPath] = 1

(***************************************************************************)
(* C4: the start module's own path                                         *)
(***************************************************************************)

\* C4: when walk_deps has returned, the start's own path is in
\* state.traversed exactly when a non-filtered edge of an explored module
\* leads back to it; for A -> B -> A walked from A without filters the
\* visited set without the current file's path is exactly {B}.
C4_StartOnlyByEdge ==
    WalkReturned =>
        /\ file_path \in traversed <=>
              \E e \in EdgePairs :
                  /\ explored[e[1]] >= 1
                  /\ Target(e) = file_path
                  /\ ~(ignore_types /\ TypeOnly(e))
        /\ ( /\ file_path = EntryPath
             /\ ~ignore_types
             /\ GraphIs({<<EntryPath, "./a">>, <<APath, "./entry">>}) )
           => /\ traversed = {APath, EntryPath}
              /\ {p \in traversed : p # file_path} = {APath}

\* A -> B -> A was walked from A without filters
C4_Witness ==
    /\ WalkReturned
    /\ file_path = EntryPath
    /\ ~ignore_types
    /\ GraphIs({<<EntryPath, "./a">>, <<APath, "./entry">>})
    /\ EntryPath \in traversed

(***************************************************************************)
(* C5: type-only filtering is per edge                                     *)
(***************************************************************************)

\* C5: when walk_deps has returned, a path is in state.traversed only if
\* some explored module has an edge to it that is not skipped as type-only
\* (with ignore_types: an edge whose import entries are all type-only is
\* not followed), and every edge of an explored module that is not skipped
\* has its target in state.traversed and walk_deps was called on the target
\* (and entered its loop unless the target is vendored); without
\* ignore_types no edge is skipped.
C5_TypeOnlyPerEdge ==
    WalkReturned =>
        /\ \A x \in traversed :
              \E e \in EdgePairs :
                  /\ explored[e[1]] >= 1
                  /\ Target(e) = x
                  /\ ~(ignore_types /\ TypeOnly(e))
        /\ \A e \in EdgePairs :
              (explored[e[1]] >= 1 /\ ~(ignore_types /\ TypeOnly(e))) =>
                  /\ Target(e) \in traversed
                  /\ called[Target(e)] >= 1
                  /\ ~Vendored(Target(e)) => explored[Target(e)] >= 1

\* with ignore_types: a is requested type-only under one specifier and by
\* value under another and is visited, b is requested type-only and is not
C5_Witness ==
    /\ WalkReturned
    /\ ignore_types
    /\ file_path = EntryPath
    /\ GraphIs({<<EntryPath, "./a">>, <<EntryPath, "./a.js">>, <<EntryPath, "./b">>})
    /\ import_entries[EntryPath] =
          {[module_request |-> "./a", is_type |-> TRUE],
           [module_request |-> "./a.js", is_type |-> FALSE],
           [module_request |-> "./b", is_type |-> TRUE]}
    /\ traversed = {APath}
    /\ explored[APath] = 1

(***************************************************************************)
(* C6: vendored modules and the visited set                                *)
(***************************************************************************)

\* C6 as claimed: a module whose path has a node_modules component is never
\* in state.traversed.
C6_VendoredNeverVisited == \A p \in traversed : ~Vendored(p)

\* C6 as amended: a module whose path has a node_modules component is never
\* among the paths run_once counts (the caller's filter removes it) and its
\* edges are never explored, whatever ignore_types is; it is in
\* state.traversed when a followed edge of a non-vendored module leads to it.
C6_VendoredNeverCounted ==
    \A p \in Paths : Vendored(p) =>
        /\ p \notin InternalDeps(file_path, traversed)
        /\ explored[p] = 0
        /\ WalkReturned =>
              (p \in traversed <=>
                  \E e \in EdgePairs :
                      /\ explored[e[1]] >= 1
                      /\ Target(e) = p
                      /\ ~(ignore_types /\ TypeOnly(e)))

\* a vendored module was inserted into state.traversed by a followed edge
C6_Witness ==
    /\ pc = "done"
    /\ PkgPath \in traversed
    /\ APath \in traversed

(***************************************************************************)
(* C7: the edges of a vendored module                                      *)
(***************************************************************************)

\* C7: the edges of a vendored module are never explored: for both values
\* of ignore_types a module that the start reaches only along paths through
\* a vendored module is not in state.traversed, and a vendored start leaves
\* state.traversed empty.
C7_VendoredEdgesUnexplored ==
    /\ \A p \in Paths : Vendored(p) => explored[p] = 0
    /\ traversed \subseteq Reachable(FALSE, FALSE)
    /\ Vendored(file_path) => traversed = {}

\* c is loaded by the vendored module alone and stays out of the set
C7_Witness ==
    /\ WalkReturned
    /\ GraphIs({<<EntryPath, "pkg">>, <<PkgPath, "./c">>})
    /\ file_path = EntryPath
    /\ called[PkgPath] = 1
    /\ traversed = {PkgPath}

(***************************************************************************)
(* C8: the diagnostic of the excessive-dependencies check                  *)
(***************************************************************************)

\* the number a string of decimal digits denotes
DigitValue(c) == CHOOSE d \in 0..9 : Digit(d) = c

RECURSIVE DecimalValue(_)
DecimalValue(str) ==
    IF str = <<>>
    THEN 0
    ELSE DecimalValue(SubSeq(str, 1, Len(str) - 1)) * 10 + DigitValue(str[Len(str)])

\* the visited paths that are neither the file's own path nor vendored
CountedPaths == {p \in traversed : p # file_path /\ ~Vendored(p)}

\* more counted paths than the configured limit
OverLimit == max_deps[1] = 0 /\ Cardinality(CountedPaths) > max_deps[2]

\* C8: run_once reports exactly one diagnostic when the number of visited
\* paths that are neither the file's own path nor vendored is strictly
\* greater than max_deps and none otherwise, and the diagnostic states that
\* count and the limit; for the chain entry -> a -> b -> c the count is 3,
\* reported once with limit 2 and not at all with a limit of 3 or more.
C8_ReportsOverLimit ==
    /\ pc # "done" => diagnostics = <<>>
    /\ pc = "done" =>
          /\ OverLimit =>
                /\ Len(diagnostics) = 1
                /\ DecimalValue(diagnostics[1].count) = Cardinality(CountedPaths)
                /\ DecimalValue(diagnostics[1].limit) = max_deps[2]
          /\ ~OverLimit => diagnostics = <<>>
          /\ ( /\ file_path = EntryPath
               /\ ~ignore_types
               /\ GraphIs({<<EntryPath, "./a">>, <<APath, "./b">>, <<BPath, "./c">>}) )
             => /\ Cardinality(CountedPaths) = 3
                /\ max_deps = U32(2) =>
                      /\ Len(diagnostics) = 1
                      /\ diagnostics[1].count = <<"3">>
                      /\ diagnostics[1].limit = <<"2">>
                /\ (max_deps[1] > 0 \/ max_deps[2] >= 3) => diagnostics = <<>>

\* the chain entry -> a -> b -> c was reported with limit 2
C8_Witness ==
    /\ pc = "done"
    /\ file_path = EntryPath
    /\ max_deps = U32(2)
    /\ GraphIs({<<EntryPath, "./a">>, <<APath, "./b">>, <<BPath, "./c">>})
    /\ Len(diagnostics) = 1
    /\ diagnostics[1].count = <<"3">>

(***************************************************************************)
(* C9: the ids add_node assigns                                            *)
(***************************************************************************)

\* C9: on a fresh store the k-th add_node call (k = 0, 1, 2, ...) returns id
\* k, the node stored at index k carries id k, no id is returned twice, and
\* the node table and the parent table have the same length.
C9_IdsAreSequential ==
    /\ Len(nodes) = Len(parent_ids)
    /\ Len(returned) = Len(nodes)
    /\ \A k \in 0..(Len(returned) - 1) :
          /\ returned[k + 1] = k
          /\ get_node(k).id = k
    /\ \A i, j \in DOMAIN returned : i # j => returned[i] # returned[j]

\* three calls have returned 0, 1, 2
C9_Witness ==
    /\ returned = <<0, 1, 2>>
    /\ nodes[3].id = 2

(***************************************************************************)
(* C10: ancestors of a node that is not the root                           *)
(***************************************************************************)

\* every parent id passed to add_node was an id already returned
ParentsAlreadyReturned ==
    \A id \in Ids : parent_id(id) = None \/ parent_id(id)[1] < id

\* the ancestors of id are finitely many, start at id, follow the parent
\* links, end at the root and are at least two
AncestorsReachRoot(id) ==
    LET a == ancestors(id)
    IN  /\ Len(a) <= Len(parent_ids)
        /\ Len(a) >= 2
        /\ a[1] = id
        /\ \A j \in 1..(Len(a) - 1) : parent_id(a[j]) = Some(a[j + 1])
        /\ a[Len(a)] = root

C12_OneParentlessRoot ==
    (~panicked /\ Len(parent_ids) > 0) =>
        /\ {id \in Ids : parent_id(id) = None} = {root}
        /\ \A id \in Ids \ {root} : parent_id(id)[1] < id

(***************************************************************************)
(* C13: set_root called again                                              *)
(***************************************************************************)

\* C13: set_root is callable once: a set_root call on a store whose root was
\* set before, also one with a Program node, faults and leaves the root of
\* the first call as it was.  (A step that leaves the parent table alone is
\* a set_root call.)
C13_SecondSetRootFaults ==
    [][(root_set /\ ~panicked /\ parent_ids' = parent_ids)
          => (panicked' /\ root' = root)]_vars

(***************************************************************************)
(* C14: from_configuration on any configuration value                      *)
(***************************************************************************)

\* the members of the option object config[0], when there is one
ConfigOptions ==
    IF config.t = "array" /\ config.items # <<>> /\ config.items[1].t = "object"
    THEN config.items[1].fields
    ELSE [k \in {} |-> Null]

\* the option is absent or its value is not of the type the rule reads
AbsentOrNot(k, type) == k \notin DOMAIN ConfigOptions \/ ConfigOptions[k].t # type

\* `paths` is absent or no array
PathsAbsentOrNoArray ==
    \/ config.t # "object"
    \/ "paths" \notin DOMAIN config.fields
    \/ config.fields["paths"].t # "array"

\* every rule built holds the default of each option that is absent or of
\* the wrong type
DefaultsWhereAbsent ==
    /\ "NoExcessiveDeps" \in configured =>
          /\ AbsentOrNot("maxDeps", "number") => max_deps = U32_MAX
          /\ AbsentOrNot("ignoreTypes", "bool") => ignore_types = FALSE
          /\ AbsentOrNot("shouldPrintDeps", "bool") => should_print_deps = TRUE
    /\ "NoExportAll" \in configured =>
          /\ AbsentOrNot("showDependencySize", "bool") =>
                no_export_all.show_dependency_size = FALSE
          /\ AbsentOrNot("ignoreTypes", "bool") => no_export_all.ignore_types = FALSE
    /\ "NoRestrictedImports" \in configured =>
          (PathsAbsentOrNoArray => no_restricted_imports.paths = <<>>)

\* C14: from_configuration never halts the run: whatever the configuration
\* value (keys missing, keys of the wrong type, a paths entry without a
\* string path, paths that is no array), no from_configuration call faults
\* and the rule it returns has the default of every absent or wrongly
\* shaped key.
C14_FromConfigurationNeverHalts == ~panicked /\ DefaultsWhereAbsent

(***************************************************************************)
(* C15: what the restricted-imports check reports                          *)
(***************************************************************************)

\* the entries of `paths` in the configuration value, as configured
ConfiguredPaths ==
    IF PathsAbsentOrNoArray THEN <<>> ELSE config.fields["paths"].items

\* the configured entries whose path is string-equal to the request of
\* import entry i
Matching(i) ==
    {j \in DOMAIN ConfiguredPaths :
        ConfiguredPaths[j].fields["path"] = String(entries[i].module_request.name)}

\* the message configured in an entry, empty when it has none
ConfiguredMessage(p) ==
    IF "message" \in DOMAIN p.fields /\ p.fields["message"].t = "string"
    THEN p.fields["message"].s
    ELSE ""

\* the diagnostics reported at the specifier of import entry i
ReportedAt(i) ==
    {d \in DOMAIN diagnostics : diagnostics[d].span = entries[i].module_request.span}

\* C15: the restricted-imports check reports, for each import entry of the
\* file, exactly one diagnostic when the requested specifier is string-equal
\* to the path of a configured entry and none otherwise (a path that is only
\* a prefix of the specifier does not match); the diagnostic carries the
\* message of the first matching configured entry and the span of the
\* specifier.
C15_RestrictedImportsReported ==
    (pc = "done" /\ "NoRestrictedImports" \in configured) =>
        /\ \A i \in DOMAIN entries :
              /\ Cardinality(ReportedAt(i)) = IF Matching(i) # {} THEN 1 ELSE 0
              /\ \A d \in ReportedAt(i) :
                    LET first == CHOOSE j \in Matching(i) : \A k \in Matching(i) : j <= k
                    IN  diagnostics[d].message = ConfiguredMessage(ConfiguredPaths[first])
        /\ Len(diagnostics) = Cardinality({i \in DOMAIN entries : Matching(i) # {}})

\* `moment` and `moment-timezone` are configured, `./malformed.js` and
\* `moment-timezone` are imported: one diagnostic, for the second import,
\* with the message of the second configured entry
C15_Witness ==
    /\ pc = "done"
    /\ Len(ConfiguredPaths) = 2
    /\ ConfiguredPaths[1] = Object([path |-> String("moment"),
                                    message |-> String("Do not use 'moment'")])
    /\ ConfiguredPaths[2] = Object([path |-> String("moment-timezone"),
                                    message |-> String("Do not use 'moment-timezone'")])
    /\ Len(entries) = 2
    /\ entries[1].module_request.name = "./malformed.js"
    /\ entries[2].module_request.name = "moment-timezone"
    /\ Len(diagnostics) = 1
    /\ diagnostics[1].message = "Do not use 'moment-timezone'"
    /\ diagnostics[1].span = entries[2].module_request.span

(***************************************************************************)
(* C16: the order of dispatch over one file                                *)
(***************************************************************************)

\* the positions of the run_once calls among the calls made
OnceCalls == {i \in DOMAIN calls : calls[i].call = "run_once"}

\* C16: dispatch over a file is sequential: the run calls visit the nodes in
\* the order of the pre-order walk, each node once; every run call has
\* completed before run_once is called; run_once is called once per file and
\* no call follows it.
C16_NodeWalkBeforeFileOnce ==
    /\ \A i \in DOMAIN calls : calls[i].call = "run" => calls[i].node = Some(i - 1)
    /\ Cardinality(OnceCalls) <= 1
    /\ \A i \in OnceCalls :
          /\ i = Len(tree) + 1
          /\ i = Len(calls)
          /\ cursor = Len(tree)
    /\ pc \in {"walk", "done"} <=> OnceCalls # {}

\* a file of three nodes, one of them an export-all declaration whose
\* dependencies were walked, has been dispatched to the end
C16_Witness ==
    /\ pc = "done"
    /\ Len(tree) = 3
    /\ Len(calls) = 4
    /\ calls[4].call = "run_once"
    /\ \E d \in DOMAIN diagnostics : diagnostics[d].help # <<>>

(***************************************************************************)
(* C17: a specifier that did not resolve                                   *)
(***************************************************************************)

\* C17: an unresolved module reference is ignored: when a specifier of the
\* file has no entry in loaded_modules, every check completes its pass
\* without a fault and reports nothing because of the missing edge (the only
\* diagnostics are those of the export-all declarations themselves), also
\* the export-all check with show_dependency_size on an `export * from S`
\* whose S is unresolved.
C17_UnresolvedIgnored ==
    /\ ~panicked
    /\ \A d \in DOMAIN diagnostics :
          \E i \in DOMAIN tree :
             /\ tree[i].kind = "ExportAllDeclaration"
             /\ diagnostics[d].span = tree[i].span

(***************************************************************************)
(* C18, C19: parameter-property assignments of constructors                *)
(***************************************************************************)

\* the statements of a body as written that retain() keeps
Kept(body) == IF body = None THEN <<>> ELSE retain(body[1])

\* the body holds a super() call statement
HasSuper(body) == \E i \in DOMAIN Kept(body) : Kept(body)[i].kind = "super"

\* the names of the public parameter properties of a method definition
PropertyNames(d) ==
    LET props == SelectSeq(d.params,
                    LAMBDA q : q.accessibility = "public" /\ q.identifier # None)
    IN  [i \in 1..Len(props) |-> props[i].identifier[1]]

\* C18: whatever the classes processed before by the same transformer, a
\* constructor whose body holds no super() call statement has, once its exit
\* hook has run, one `this.name = name` per public parameter property at the
\* bottom of its body, and no assignment is pending afterwards; also after
\* an earlier constructor that held a super() call.
C18_AssignmentsAtBottom ==
    (hook = "enter" /\ def # None /\ def[1].kind = "Constructor"
        /\ ~HasSuper(def[1].source)) =>
        /\ assignments = <<>>
        /\ PropertyNames(def[1]) # <<>> =>
              /\ def[1].body # None
              /\ def[1].body[1] =
                    Kept(def[1].source) \o
                    [i \in DOMAIN PropertyNames(def[1]) |->
                        create_this_property_assignment(PropertyNames(def[1])[i])]

\* the statements expected of a list with pending assignments: the kept
\* statements in their order, each super() call followed by a copy of the
\* assignments
RECURSIVE AfterEachSuper(_, _)
AfterEachSuper(stmts, pending) ==
    IF stmts = <<>> THEN <<>>
    ELSE (IF Head(stmts).kind = "super" THEN <<Head(stmts)>> \o pending ELSE <<Head(stmts)>>)
            \o AfterEachSuper(Tail(stmts), pending)

\* C19: when assignments are pending and a statement list holds one or more
\* super() call statements, at any positions, transform_statements_on_exit
\* puts a copy of the pending assignments right after each super() call
\* statement and the statements of the list keep their relative order.
C19_CopiesAfterEachSuper ==
    (hook = "exit" /\ assignments # <<>> /\ HasSuper(def[1].source)) =>
        def[1].body[1] = AfterEachSuper(Kept(def[1].source), assignments)

(***************************************************************************)
(* C20: an edge that no import entry requests                              *)
(***************************************************************************)

\* some import entry of the edge's module requests the edge's specifier
Requested(e) == \E x \in import_entries[e[1]] : x.module_request = e[2]

\* C20: with ignore_types set, an edge whose specifier is requested by none
\* of its module's import entries (the edge of a re-export, say) is treated
\* as type-only and skipped: when walk_deps has returned, every path in
\* state.traversed is the target of an edge of an explored module that an
\* import entry requests.
C20_UnrequestedEdgeSkipped ==
    (WalkReturned /\ ignore_types) =>
        \A x \in traversed :
            \E e \in EdgePairs :
                /\ explored[e[1]] >= 1
                /\ Target(e) = x
                /\ Requested(e)

\* with ignore_types: the entry file has loaded `./a` and `./b`, imports
\* `./b` by value and requests `./a` in no import entry; only b is visited
C20_Witness ==
    /\ WalkReturned
    /\ ignore_types
    /\ file_path = EntryPath
    /\ GraphIs({<<EntryPath, "./a">>, <<EntryPath, "./b">>})
    /\ import_entries[EntryPath] = {[module_request |-> "./b", is_type |-> FALSE]}
    /\ explored[EntryPath] = 1
    /\ traversed = {BPath}

(***************************************************************************)
(* C21: the visited set does not depend on the order of the edges          *)
(***************************************************************************)

\* the visited set as a function of the graph, the start and ignore_types
\* alone: the least set holding the target of every non-filtered edge of the
\* start and of its own non-vendored members
VisitedOf == Reachable(TRUE, FALSE)

\* C21: whatever the order in which the loop of each walk_deps call takes the
\* keys of loaded_modules, the walk ends with the same state.traversed, the
\* one set the graph and the options determine, and so with the same count
\* for the comparison with max_deps.
C21_VisitedIsOrderIndependent ==
    WalkReturned =>
        /\ traversed = VisitedOf
        /\ NumInternalDeps =
              Cardinality({p \in VisitedOf : p # file_path /\ ~Vendored(p)})

\* entry imports a and b and a imports b: b is reached from entry or through
\* a, depending on the key taken first, and both walks end with {a, b}
C21_Witness ==
    /\ WalkReturned
    /\ GraphIs({<<EntryPath, "./a">>, <<EntryPath, "./b">>, <<APath, "./b">>})
    /\ file_path = EntryPath
    /\ ~ignore_types
    /\ traversed = {APath, BPath}
    /\ NumInternalDeps = 2

(***************************************************************************)
(* C22: the limit from_configuration makes of maxDeps                      *)
(***************************************************************************)

\* config[0].maxDeps is a non-negative integer (a u64 in four 16-bit limbs)
MaxDepsIsU64 ==
    /\ "maxDeps" \in DOMAIN ConfigOptions
    /\ ConfigOptions["maxDeps"].t = "number"
    /\ ConfigOptions["maxDeps"].n.kind = "PosInt"

\* n = q * 2^32 + r with r below 2^32, for n in four limbs and r in two
IsRemainder2_32(n, r) == \E q \in {SubSeq(n, 1, 2)} : n = q \o r

\* C22: the rule built by NoExcessiveDeps::from_configuration holds the limit
\* n mod 2^32 for a non-negative integer maxDeps n (so 2 stays 2, 2^32
\* becomes 0 and 2^32 + 2 becomes 2), and the limit 2^32 - 1 for a maxDeps
\* that is negative, fractional, no number or absent.
C22_MaxDepsModulo ==
    "NoExcessiveDeps" \in configured =>
        IF MaxDepsIsU64
        THEN IsRemainder2_32(ConfigOptions["maxDeps"].n.limbs, max_deps)
        ELSE max_deps = U32_MAX

\* [{"maxDeps": 4294967296}] gives the limit 0
C22_Witness ==
    /\ "NoExcessiveDeps" \in configured
    /\ config = Array(<<Object([maxDeps |-> Number(PosInt(0, 1, 0, 0))])>>)
    /\ max_deps = U32(0)

====
